---- MODULE Spec2Model ----
(***************************************************************************)
(* Ledger of the savings-group application: RecordEntryView.form_valid     *)
(* (groups/views.py) writing contributions.models.Entry rows onto the      *)
(* pages of a member's digital book.  Amounts are whole currency units;    *)
(* the source uses exact Decimal arithmetic, so integers lose nothing.     *)
(* The statements of the views are taken to do what they say: the book of  *)
(* MemberCreateView.form_valid (DigitalBook.objects.create(book_number=1), *)
(* no member given) is stored without a member, and the attribute          *)
(* member.digital_book it sets is what the other views read afterwards.    *)
(* Member.save, which the same view calls, makes a second book, with the   *)
(* member, and stores it as current_book.  The pages of both books are     *)
(* kept in one table keyed by the book.                                    *)
(* Entry is contributions.models.Entry, the class the views import: its    *)
(* save() recomputes current_balance on every INSERT.  The SELECT and the  *)
(* INSERT of one save() are taken as one step.                             *)
(***************************************************************************)
EXTENDS Integers, FiniteSets, Sequences, TLC

\* ---------------------------------------------------------------- bounds
MaxOps == 3          \* record requests started in one behaviour
MaxDate == 2         \* dates a request may carry: 1..MaxDate
MaxPageNum == 2      \* ?page= values a request may carry: 1..MaxPageNum
NumMembers == 1      \* registered members
MaxRegs == 2         \* members created in one behaviour
NumGroups == 2       \* savings groups

\* ------------------------------------------------------ program constants
RowsPerPage == 31    \* range(1, 32)
PagesPerBook == 20   \* range(1, 21)
FixedRate == 10      \* Group.fixed_deposit_amount default

Members == 1..NumMembers
Dates == 1..MaxDate
PageNums == 1..MaxPageNum
Reqs == {1, 2}       \* concurrently served requests
Groups == 1..NumGroups

\* (deposit_amount, withdrawal_amount) pairs a submitted form may carry
Amounts ==
  { <<5, 0>>, <<25, 0>>, <<300, 0>>, <<6210, 0>>,
    <<0, 15>>, <<0, 30>>, <<0, 0>>, <<10, 15>>, <<-5, 0>> }

NoEntry == [id |-> 0]

VARIABLES
  status,        \* member -> Member.status, for the members that exist
  current_book,  \* member -> id of Member.current_book, 0 for NULL
  reg,           \* the registration in progress: position and local variables
  books,         \* DigitalBook rows: [id, member, book_number]; member 0 is none
  pages,         \* Page rows: [book, page_number]
  digital_book,  \* member -> id of the book the views read as
                 \* member.digital_book, 0 for none
  entries,       \* contributions Entry rows
  next_id,       \* next auto-increment primary key of Entry
  ops,           \* requests started so far
  last,          \* the request served last and its outcome
  req,           \* per concurrent request: position and local variables
  members,       \* Member rows as far as ids go: [pk, group, member_id]
  member_pk,     \* next auto-increment primary key of Member
  creating       \* per concurrent creation of a member: position, group
                 \* and the member_id computed

vars == <<status, current_book, reg, books, pages, digital_book, entries,
          next_id, ops, last, req, members, member_pk, creating>>

\* ------------------------------------------------------------- queries
Max(S) == CHOOSE x \in S : \A y \in S : y <= x
Min(S) == CHOOSE x \in S : \A y \in S : x <= y

\* page.entries : the entries whose page foreign key is pg
PageEntries(es, pg) == {e \in es : e.page = pg}

\* page.entries.values_list('row_number', flat=True)
OccupiedRows(es, pg) == {e.row_number : e \in PageEntries(es, pg)}

\* Entry.objects.filter(member=member).order_by('-id').first()
LastEntryById(es, m) ==
  LET mine == {e \in es : e.member = m}
  IN IF mine = {} THEN NoEntry
     ELSE LET top == Max({e.id : e \in mine})
          IN CHOOSE e \in mine : e.id = top

\* current_bal = last_entry.current_balance if last_entry else 0
CurrentBal(es, m) ==
  LET le == LastEntryById(es, m)
  IN IF le = NoEntry THEN 0 ELSE le.current_balance

\* the same query without its member filter
PreviousEntryAnyMember(es, m) ==
  LET mine == es
  IN IF mine = {} THEN NoEntry
     ELSE LET d == Max({e.date : e \in mine})
              onDate == {e \in mine : e.date = d}
              row == Max({e.row_number : e \in onDate})
              onRow == {e \in onDate : e.row_number = row}
              top == Max({e.id : e \in onRow})
          IN CHOOSE e \in onRow : e.id = top

\* Entry.objects.filter(member=self.member).order_by('-date','-row_number','-id').first()
PreviousEntry(es, m) ==
  LET mine == {e \in es : e.member = m}
  IN IF mine = {} THEN NoEntry
     ELSE LET d == Max({e.date : e \in mine})
              onDate == {e \in mine : e.date = d}
              row == Max({e.row_number : e \in onDate})
              onRow == {e \in onDate : e.row_number = row}
              top == Max({e.id : e \in onRow})
          IN CHOOSE e \in onRow : e.id = top

\* starting_balance = previous_entry.current_balance if previous_entry else 0
StartingBalance(es, m) ==
  LET pe == PreviousEntry(es, m)
  IN IF pe = NoEntry THEN 0 ELSE pe.current_balance

\* Entry.save on a new row: the balance the caller passed is overwritten
SavedEntry(es, nid, m, pg, row, d, dep, wd) ==
  [id |-> nid, member |-> m, page |-> pg, row_number |-> row, date |-> d,
   deposit_amount |-> dep, withdrawal_amount |-> wd,
   current_balance |-> StartingBalance(es, m) + dep - wd]

\* the table without its unique constraint
UniqueViolationOff(es, pg, row) == FALSE

\* unique_together = ('page', 'row_number')
UniqueViolation(es, pg, row) == row \in OccupiedRows(es, pg)

\* next((i for i in range(1, 32) if i not in occupied_rows), None); 0 is None
NextRow(occupied) ==
  LET free == (1..RowsPerPage) \ occupied
  IN IF free = {} THEN 0 ELSE Min(free)

\* num_rows = int(total_deposit // fixed_rate)
NumRows(total_deposit, fixed_rate) == total_deposit \div fixed_rate

\* remainder = total_deposit % fixed_rate
Remainder(total_deposit, fixed_rate) == total_deposit % fixed_rate

\* ------------------------------------------- RecordEntryView.form_valid
\* The handler is a sequence of steps, one per database access; st is
\* [entries, next_id, rq] and rq holds the handler's local variables.
IdleReq ==
  [pc |-> "idle", member |-> 0, page |-> [book |-> 0, page_number |-> 0],
   date |-> 0, total_deposit |-> 0, withdrawal |-> 0, current_bal |-> 0,
   last_entry_id |-> 0, occupied_rows |-> {}, i |-> 0, next_row |-> 0,
   num_rows |-> 0, remainder |-> 0, rows_filled |-> 0, outcome |-> "none"]

\* member, page and the form's cleaned_data, as the handler receives them
NewRequest(m, page_num, total_deposit, withdrawal, entry_date) ==
  [IdleReq EXCEPT !.pc = "begin", !.member = m,
     !.page = [book |-> digital_book[m], page_number |-> page_num],
     !.date = entry_date, !.total_deposit = total_deposit,
     !.withdrawal = withdrawal]

Finished(rq, result) == [rq EXCEPT !.pc = "done", !.outcome = result]

\* the comparison the wrong way round
InsufficientFlipped(withdrawal, current_bal) == withdrawal < current_bal

\* withdrawal > current_bal : "Insufficient balance!"
Insufficient(withdrawal, current_bal) == withdrawal > current_bal

\* the row range one too long: range(rq.i, 33)
FreeFromOffByOne(rq) ==
  {j \in rq.i..(RowsPerPage + 1) : j \notin rq.occupied_rows}

\* the rows of range(rq.i, 32) the snapshot shows free
FreeFrom(rq) == {j \in rq.i..RowsPerPage : j \notin rq.occupied_rows}

\* the feedback block without its warning branch
DepositFeedbackAlwaysFilled(rq) == Finished(rq, "filled")

\* the feedback block that ends the deposit branch
DepositFeedback(rq) ==
  IF rq.rows_filled < rq.num_rows THEN Finished(rq, "couldnt_fit")
  ELSE Finished(rq, "filled")

\* the remainder search from row rq.i on: at its next read of the page,
\* or past row 31
RemainderLoop(rq) ==
  IF FreeFrom(rq) = {} THEN DepositFeedback(rq)
  ELSE [rq EXCEPT !.pc = "d_rem_check"]

\* the block after the fixed-rate loop: remainder search or feedback
AfterFullRows(rq) ==
  IF rq.remainder > 0 THEN RemainderLoop([rq EXCEPT !.i = 1])
  ELSE DepositFeedback(rq)

\* the loop without its "rows_filled >= num_rows: break"
FullRowsLoopNoBreak(rq) ==
  IF FreeFrom(rq) = {}
    THEN AfterFullRows(rq)
    ELSE [rq EXCEPT !.pc = "d_fill"]

\* the fixed-rate loop from row rq.i on: at its next create, or left
FullRowsLoop(rq) ==
  IF rq.rows_filled >= rq.num_rows \/ FreeFrom(rq) = {}
    THEN AfterFullRows(rq)
    ELSE [rq EXCEPT !.pc = "d_fill"]

\* the deposit branch entered on any non-zero amount
BeginDepositNonZero(st) ==
  LET rq == st.rq
      bal == CurrentBal(st.entries, rq.member)
      r1 == [rq EXCEPT !.current_bal = bal,
                       !.last_entry_id = LastEntryById(st.entries, rq.member).id]
  IN [st EXCEPT !.rq =
        IF rq.withdrawal > 0
          THEN IF Insufficient(rq.withdrawal, bal)
                 THEN Finished(r1, "insufficient")
                 ELSE [r1 EXCEPT !.pc = "w_find"]
        ELSE IF rq.total_deposit # 0
          THEN [r1 EXCEPT !.pc = "d_scan"]
        ELSE Finished(r1, "no_amount")]

\* remaining_amount = (num_rows - rows_filled) * fixed_rate, the amount the
\* warning reports as not fitting; 0 when no warning is given
OverflowReported(rq) ==
  IF rq.outcome = "couldnt_fit" THEN (rq.num_rows - rq.rows_filled) * FixedRate
  ELSE 0

\* reads the balance and picks the branch
Begin(st) ==
  LET rq == st.rq
      bal == CurrentBal(st.entries, rq.member)
      r1 == [rq EXCEPT !.current_bal = bal,
                       !.last_entry_id = LastEntryById(st.entries, rq.member).id]
  IN [st EXCEPT !.rq =
        IF rq.withdrawal > 0
          THEN IF Insufficient(rq.withdrawal, bal)
                 THEN Finished(r1, "insufficient")
                 ELSE [r1 EXCEPT !.pc = "w_find"]
        ELSE IF rq.total_deposit > 0
          THEN [r1 EXCEPT !.pc = "d_scan"]
        ELSE Finished(r1, "no_amount")]

\* a discovery that reserves the row it found by writing an empty entry
WFindReserving(st) ==
  LET rq == st.rq
      row == NextRow(OccupiedRows(st.entries, rq.page))
  IN IF row # 0
       THEN [st EXCEPT
               !.rq = [rq EXCEPT !.pc = "w_create", !.next_row = row],
               !.entries = st.entries \cup
                 {SavedEntry(st.entries, st.next_id, rq.member, rq.page, row,
                             rq.date, 0, 0)},
               !.next_id = st.next_id + 1]
       ELSE [st EXCEPT !.rq = Finished(rq, "page_full")]

\* withdrawal: find first empty row
WFind(st) ==
  LET rq == st.rq
      row == NextRow(OccupiedRows(st.entries, rq.page))
  IN [st EXCEPT !.rq =
        IF row # 0 THEN [rq EXCEPT !.pc = "w_create", !.next_row = row]
        ELSE Finished(rq, "page_full")]

\* a save that writes the new row over the member's latest entry
CreateEntryOverLatest(st, row, dep, wd) ==
  LET rq == st.rq
  IN [st EXCEPT
        !.entries = (st.entries \ {LastEntryById(st.entries, rq.member)}) \cup
          {SavedEntry(st.entries, st.next_id, rq.member, rq.page, row,
                      rq.date, dep, wd)},
        !.next_id = st.next_id + 1]

\* Entry.objects.create(...): Entry.save, then the INSERT under the
\* unique constraint; an IntegrityError ends the request
CreateEntry(st, row, dep, wd) ==
  LET rq == st.rq
  IN IF UniqueViolation(st.entries, rq.page, row)
       THEN [st EXCEPT !.rq = Finished(rq, "integrity_error")]
       ELSE [st EXCEPT
               !.entries = st.entries \cup
                 {SavedEntry(st.entries, st.next_id, rq.member, rq.page, row,
                             rq.date, dep, wd)},
               !.next_id = st.next_id + 1]

\* withdrawal: write the one row
WCreate(st) ==
  LET s1 == CreateEntry(st, st.rq.next_row, 0, st.rq.withdrawal)
  IN IF s1.rq.pc = "done" THEN s1
     ELSE [s1 EXCEPT !.rq = Finished(s1.rq, "withdrawn")]

\* deposit: rows needed and the snapshot of the occupied rows
DScan(st) ==
  LET rq == st.rq
  IN [st EXCEPT !.rq = FullRowsLoop(
        [rq EXCEPT
           !.num_rows = NumRows(rq.total_deposit, FixedRate),
           !.remainder = Remainder(rq.total_deposit, FixedRate),
           !.occupied_rows = OccupiedRows(st.entries, rq.page),
           !.rows_filled = 0, !.i = 1])]

\* deposit: one fixed-rate row on the next row the snapshot shows free
DFill(st) ==
  LET rq == st.rq
      row == Min(FreeFrom(rq))
      s1 == CreateEntry(st, row, FixedRate, 0)
  IN IF s1.rq.pc = "done" THEN s1
     ELSE [s1 EXCEPT !.rq = FullRowsLoop(
             [rq EXCEPT !.i = row + 1, !.rows_filled = rq.rows_filled + 1])]

\* the candidate row checked against the snapshot only
DRemCheckSnapshotOnly(st) ==
  LET rq == st.rq
      row == Min(FreeFrom(rq))
  IN [st EXCEPT !.rq = [rq EXCEPT !.pc = "d_rem_create", !.next_row = row]]

\* deposit remainder: the candidate row is checked against a fresh read
\* of the page
DRemCheck(st) ==
  LET rq == st.rq
      row == Min(FreeFrom(rq))
  IN IF row \notin OccupiedRows(st.entries, rq.page)
       THEN [st EXCEPT !.rq = [rq EXCEPT !.pc = "d_rem_create",
                                          !.next_row = row]]
       ELSE [st EXCEPT !.rq = RemainderLoop([rq EXCEPT !.i = row + 1])]

\* deposit remainder: write the partial row
DRemCreate(st) ==
  LET rq == st.rq
      s1 == CreateEntry(st, rq.next_row, rq.remainder, 0)
  IN IF s1.rq.pc = "done" THEN s1
     ELSE [s1 EXCEPT !.rq =
             DepositFeedback([rq EXCEPT !.rows_filled = rq.rows_filled + 1])]

\* one step of the handler at its current position
HandlerStep(st) ==
  CASE st.rq.pc = "begin" -> Begin(st)
    [] st.rq.pc = "w_find" -> WFind(st)
    [] st.rq.pc = "w_create" -> WCreate(st)
    [] st.rq.pc = "d_scan" -> DScan(st)
    [] st.rq.pc = "d_fill" -> DFill(st)
    [] st.rq.pc = "d_rem_check" -> DRemCheck(st)
    [] st.rq.pc = "d_rem_create" -> DRemCreate(st)
    [] OTHER -> st

\* the whole handler, run without interruption
RECURSIVE FormValid(_)
FormValid(st) == IF st.rq.pc = "done" THEN st ELSE FormValid(HandlerStep(st))

\* ------------------------------------------------------------ the system
\* no registration in progress
\* ------------------------------------------------------------ member ids
\* string.ascii_uppercase
ascii_uppercase ==
  <<"A", "B", "C", "D", "E", "F", "G", "H", "I", "J", "K", "L", "M",
    "N", "O", "P", "Q", "R", "S", "T", "U", "V", "W", "X", "Y", "Z">>

\* Member.objects.filter(group=group).count()
GroupCount(ms, group) == Cardinality({m \in ms : m.group = group})

\* an id string as <<prefix, digits, number>>: f"{count:04d}" is
\* <<"", 4, count>>, f"{prefix}{number_part:03d}" is <<prefix, 3, number_part>>
\* and f"EXT{count}" is <<"EXT", 0, count>>; digits is the zero-padded
\* width, 0 for none
generate_next_member_id(ms, group) ==
  LET count == GroupCount(ms, group) + 1
      overflow_count == count - 9999
      letter_index == (overflow_count - 1) \div 999
      number_part == ((overflow_count - 1) % 999) + 1
  IN IF count <= 9999 THEN <<"", 4, count>>
     ELSE IF letter_index < Len(ascii_uppercase)
            THEN <<ascii_uppercase[letter_index + 1], 3, number_part>>
     ELSE <<"EXT", 0, count>>

\* MemberCreateView.get_next_member_id: the view's own copy of the rule
get_next_member_id(ms, group) ==
  LET count == GroupCount(ms, group) + 1
      overflow == count - 9999
      letter_idx == (overflow - 1) \div 999
      num_part == ((overflow - 1) % 999) + 1
  IN IF count <= 9999 THEN <<"", 4, count>>
     ELSE IF letter_idx < Len(ascii_uppercase)
            THEN <<ascii_uppercase[letter_idx + 1], 3, num_part>>
     ELSE <<"EXT", 0, count>>

\* no creation of a member in progress; pc is where a creation stands:
\* in form_valid after the id was read, or in save after it was generated
IdleCreating == [pc |-> "idle", group |-> 0, member_id |-> <<>>]

\* the Member rows left by MemberCreateView.form_valid run for members ms
\* one after the other, all in group 1
MembersRegistered(ms) ==
  {[pk |-> m, group |-> 1, member_id |-> <<"", 4, m>>] : m \in ms}

IdleReg == [pc |-> "idle", member |-> 0, new_book |-> 0, status |-> "none",
            digital_book |-> 0]

\* [Page(digital_book=new_book, page_number=i) for i in range(1, 21)]
PagesOfBook(b) == {[book |-> b, page_number |-> n] : n \in 1..PagesPerBook}

\* the books left by MemberCreateView.form_valid run for members ms one
\* after the other: for member m the view's own book_number 1, without a
\* member, and the book_number 1 that Member.save makes for the member
BooksRegistered(ms) ==
  {[id |-> 2 * m - 1, member |-> 0, book_number |-> 1] : m \in ms}
    \cup {[id |-> 2 * m, member |-> m, book_number |-> 1] : m \in ms}

RegisteredBooks == BooksRegistered(Members)

Init ==
  /\ status = [m \in Members |-> "ACTIVE"]
  /\ current_book = [m \in Members |-> 2 * m]
  /\ reg = IdleReg
  /\ books = RegisteredBooks
  /\ pages = UNION {PagesOfBook(b.id) : b \in RegisteredBooks}
  /\ digital_book = [m \in Members |-> 2 * m - 1]
  /\ entries = {}
  /\ next_id = 1
  /\ ops = 0
  /\ last = IdleReq
  /\ req = [r \in Reqs |-> IdleReq]
  /\ members = MembersRegistered(Members)
  /\ member_pk = Cardinality(Members) + 1
  /\ creating = [r \in Reqs |-> IdleCreating]

\* one record request served from start to end
Record(m, page_num, total_deposit, withdrawal, entry_date) ==
  /\ ops < MaxOps
  /\ [book |-> digital_book[m], page_number |-> page_num] \in pages
  /\ LET fin == FormValid([entries |-> entries, next_id |-> next_id,
                           rq |-> NewRequest(m, page_num, total_deposit,
                                             withdrawal, entry_date)])
     IN /\ entries' = fin.entries
        /\ next_id' = fin.next_id
        /\ last' = fin.rq
  /\ ops' = ops + 1
  /\ UNCHANGED <<status, current_book, reg>>
  /\ UNCHANGED <<members, member_pk, creating>>
  /\ UNCHANGED <<books, pages, digital_book, req>>

Next ==
  \E m \in Members, page_num \in PageNums, a \in Amounts, d \in Dates :
    Record(m, page_num, a[1], a[2], d)

Spec == Init /\ [][Next]_vars

\* ------------------------------------------- requests served concurrently
\* Requests a concurrent client may send
ConcAmounts == { <<25, 0>>, <<0, 15>> }
ConcDates == {1}

\* a request arrives at worker r
Start(r, m, page_num, total_deposit, withdrawal, entry_date) ==
  /\ ops < MaxOps
  /\ req[r].pc = "idle"
  /\ [book |-> digital_book[m], page_number |-> page_num] \in pages
  /\ req' = [req EXCEPT ![r] = NewRequest(m, page_num, total_deposit,
                                          withdrawal, entry_date)]
  /\ ops' = ops + 1
  /\ UNCHANGED <<status, current_book, reg>>
  /\ UNCHANGED <<members, member_pk, creating>>
  /\ UNCHANGED <<books, pages, digital_book, entries, next_id, last>>

\* worker r runs the step it stands at against the shared tables
Stepped(r) ==
  LET s1 == HandlerStep([entries |-> entries, next_id |-> next_id,
                         rq |-> req[r]])
  IN /\ entries' = s1.entries
     /\ next_id' = s1.next_id
     /\ req' = [req EXCEPT ![r] = s1.rq]

BeginStep(r) ==
  /\ req[r].pc = "begin"
  /\ Stepped(r)
  /\ UNCHANGED <<status, current_book, reg>>
  /\ UNCHANGED <<members, member_pk, creating>>
  /\ UNCHANGED <<books, pages, digital_book, ops, last>>

WFindStep(r) ==
  /\ req[r].pc = "w_find"
  /\ Stepped(r)
  /\ UNCHANGED <<status, current_book, reg>>
  /\ UNCHANGED <<members, member_pk, creating>>
  /\ UNCHANGED <<books, pages, digital_book, ops, last>>

WCreateStep(r) ==
  /\ req[r].pc = "w_create"
  /\ Stepped(r)
  /\ UNCHANGED <<status, current_book, reg>>
  /\ UNCHANGED <<members, member_pk, creating>>
  /\ UNCHANGED <<books, pages, digital_book, ops, last>>

DScanStep(r) ==
  /\ req[r].pc = "d_scan"
  /\ Stepped(r)
  /\ UNCHANGED <<status, current_book, reg>>
  /\ UNCHANGED <<members, member_pk, creating>>
  /\ UNCHANGED <<books, pages, digital_book, ops, last>>

DFillStep(r) ==
  /\ req[r].pc = "d_fill"
  /\ Stepped(r)
  /\ UNCHANGED <<status, current_book, reg>>
  /\ UNCHANGED <<members, member_pk, creating>>
  /\ UNCHANGED <<books, pages, digital_book, ops, last>>

DRemCheckStep(r) ==
  /\ req[r].pc = "d_rem_check"
  /\ Stepped(r)
  /\ UNCHANGED <<status, current_book, reg>>
  /\ UNCHANGED <<members, member_pk, creating>>
  /\ UNCHANGED <<books, pages, digital_book, ops, last>>

DRemCreateStep(r) ==
  /\ req[r].pc = "d_rem_create"
  /\ Stepped(r)
  /\ UNCHANGED <<status, current_book, reg>>
  /\ UNCHANGED <<members, member_pk, creating>>
  /\ UNCHANGED <<books, pages, digital_book, ops, last>>

\* the redirect (or the error page) goes out; the worker is free again
Respond(r) ==
  /\ req[r].pc = "done"
  /\ ops < MaxOps
  /\ req' = [req EXCEPT ![r] = IdleReq]
  /\ UNCHANGED <<status, current_book, reg>>
  /\ UNCHANGED <<members, member_pk, creating>>
  /\ UNCHANGED <<books, pages, digital_book, entries, next_id, ops, last>>

NextConc ==
  \/ \E r \in Reqs, m \in Members, page_num \in PageNums, a \in ConcAmounts,
        d \in ConcDates : Start(r, m, page_num, a[1], a[2], d)
  \/ \E r \in Reqs : BeginStep(r)
  \/ \E r \in Reqs : WFindStep(r)
  \/ \E r \in Reqs : WCreateStep(r)
  \/ \E r \in Reqs : DScanStep(r)
  \/ \E r \in Reqs : DFillStep(r)
  \/ \E r \in Reqs : DRemCheckStep(r)
  \/ \E r \in Reqs : DRemCreateStep(r)
  \/ \E r \in Reqs : Respond(r)

SpecConc == Init /\ [][NextConc]_vars

\* ------------------------------- requests for several members of a group
\* the members registered side by side, each with a book of their own
GroupMembers == 1..(NumMembers + 1)

InitMembers ==
  /\ status = [m \in GroupMembers |-> "ACTIVE"]
  /\ current_book = [m \in GroupMembers |-> 2 * m]
  /\ reg = IdleReg
  /\ books = BooksRegistered(GroupMembers)
  /\ pages = UNION {PagesOfBook(b.id) : b \in BooksRegistered(GroupMembers)}
  /\ digital_book = [m \in GroupMembers |-> 2 * m - 1]
  /\ entries = {}
  /\ next_id = 1
  /\ ops = 0
  /\ last = IdleReq
  /\ req = [r \in Reqs |-> IdleReq]
  /\ members = MembersRegistered(GroupMembers)
  /\ member_pk = Cardinality(GroupMembers) + 1
  /\ creating = [r \in Reqs |-> IdleCreating]

NextMembers ==
  \/ \E r \in Reqs, m \in GroupMembers, a \in ConcAmounts, d \in ConcDates :
        Start(r, m, 1, a[1], a[2], d)
  \/ \E r \in Reqs : BeginStep(r)
  \/ \E r \in Reqs : WFindStep(r)
  \/ \E r \in Reqs : WCreateStep(r)
  \/ \E r \in Reqs : DScanStep(r)
  \/ \E r \in Reqs : DFillStep(r)
  \/ \E r \in Reqs : DRemCheckStep(r)
  \/ \E r \in Reqs : DRemCreateStep(r)
  \/ \E r \in Reqs : Respond(r)

SpecMembers == InitMembers /\ [][NextMembers]_vars

\* ------------------------- the entry-creating classmethods of Entry
\* (total_amount, num_rows) pairs a caller of create_multiple_deposits may
\* pass; each total is a multiple of its num_rows, so that the Decimal
\* quotient is the integer quotient
DepositSplits == { <<20, 2>>, <<320, 32>>, <<-20, 2>>, <<10, 0>> }

\* amount_per_row = Decimal(str(total_amount)) / Decimal(str(num_rows))
AmountPerRow(total_amount, num_rows) == total_amount \div num_rows

\* a start_row that ignores the rows already on the page
StartRowFirst(es, pg) == 1

\* cls.objects.filter(page=page).order_by('-row_number').first(), then
\* start_row = last_entry.row_number + 1 if last_entry else 1
StartRow(es, pg) ==
  IF PageEntries(es, pg) = {} THEN 1 ELSE Max(OccupiedRows(es, pg)) + 1

\* entry.save() of an entry built by a classmethod: Entry.save, then the
\* INSERT under the unique constraint; ok is FALSE after an IntegrityError
SaveNew(t, m, pg, row, d, dep, wd) ==
  IF ~t.ok \/ UniqueViolation(t.entries, pg, row)
    THEN [t EXCEPT !.ok = FALSE]
    ELSE [t EXCEPT
            !.entries = t.entries \cup
              {SavedEntry(t.entries, t.next_id, m, pg, row, d, dep, wd)},
            !.next_id = t.next_id + 1]

RECURSIVE DepositRows(_, _, _, _, _, _, _)
\* for i in range(num_rows): rows start_row + i, from i on
DepositRows(t, m, pg, d, start_row, amount_per_row, left) ==
  IF left = 0 THEN t
  ELSE DepositRows(SaveNew(t, m, pg, start_row, d, amount_per_row, 0),
                   m, pg, d, start_row + 1, amount_per_row, left - 1)

\* Entry.create_multiple_deposits, under transaction.atomic
CreateMultipleDeposits(m, page_num, entry_date, total_amount, num_rows) ==
  LET pg == [book |-> digital_book[m], page_number |-> page_num]
      t0 == [entries |-> entries, next_id |-> next_id, ok |-> TRUE]
      fin == IF num_rows <= 0 THEN [t0 EXCEPT !.ok = FALSE]
             ELSE DepositRows(t0, m, pg, entry_date, StartRow(entries, pg),
                              AmountPerRow(total_amount, num_rows), num_rows)
  IN /\ ops < MaxOps
     /\ pg \in pages
     /\ entries' = (IF fin.ok THEN fin.entries ELSE entries)
     /\ next_id' = (IF fin.ok THEN fin.next_id ELSE next_id)
     /\ ops' = ops + 1
     /\ last' = IdleReq
     /\ UNCHANGED <<status, current_book, reg>>
     /\ UNCHANGED <<members, member_pk, creating>>
     /\ UNCHANGED <<books, pages, digital_book, req>>

\* the dictionaries a caller of create_multiple_entries may pass
EntryData ==
  [member : Members, page_number : {1}, date : ConcDates,
   row_number : {1, 32}, deposit_amount : {10},
   withdrawal_amount : {0, 15}]

\* the lists of entries_data: one or two dictionaries
EntryDataLists ==
  {<<x>> : x \in EntryData} \cup {<<x, y>> : x \in EntryData, y \in EntryData}

\* x sorts before y under key=lambda x: (x['date'], x['row_number'])
SortsBefore(x, y) ==
  \/ x.date < y.date
  \/ x.date = y.date /\ x.row_number < y.row_number

RECURSIVE Sorted(_)
\* sorted(member_entries, key=...): stable, smallest key first
Sorted(s) ==
  IF s = <<>> THEN <<>>
  ELSE LET i == CHOOSE k \in 1..Len(s) :
                  /\ \A j \in 1..Len(s) : ~SortsBefore(s[j], s[k])
                  /\ \A j \in 1..(k - 1) : SortsBefore(s[k], s[j])
       IN <<s[i]>> \o Sorted(SubSeq(s, 1, i - 1) \o SubSeq(s, i + 1, Len(s)))

RECURSIVE MembersInOrder(_)
\* the keys of entries_by_member, in the order they were first seen
MembersInOrder(s) ==
  IF s = <<>> THEN <<>>
  ELSE LET before == MembersInOrder(SubSeq(s, 1, Len(s) - 1))
           m == s[Len(s)].member
       IN IF \E i \in 1..Len(before) : before[i] = m THEN before
          ELSE Append(before, m)

RECURSIVE ProcessingOrder(_, _)
\* the dictionaries in the order they are saved: member by member, each
\* member's sorted
ProcessingOrder(ms, s) ==
  IF ms = <<>> THEN <<>>
  ELSE LET mine(x) == x.member = Head(ms)
       IN Sorted(SelectSeq(s, mine)) \o ProcessingOrder(Tail(ms), s)

RECURSIVE SaveAll(_, _)
\* the inner loop: one entry built and saved per dictionary
SaveAll(t, s) ==
  IF s = <<>> THEN t
  ELSE LET x == Head(s)
       IN SaveAll(SaveNew(t, x.member,
                          [book |-> digital_book[x.member],
                           page_number |-> x.page_number],
                          x.row_number, x.date, x.deposit_amount,
                          x.withdrawal_amount),
                  Tail(s))

\* Entry.create_multiple_entries, under transaction.atomic
CreateMultipleEntries(entries_data) ==
  LET t0 == [entries |-> entries, next_id |-> next_id, ok |-> TRUE]
      fin == SaveAll(t0, ProcessingOrder(MembersInOrder(entries_data),
                                         entries_data))
  IN /\ ops < MaxOps
     /\ entries' = (IF fin.ok THEN fin.entries ELSE entries)
     /\ next_id' = (IF fin.ok THEN fin.next_id ELSE next_id)
     /\ ops' = ops + 1
     /\ last' = IdleReq
     /\ UNCHANGED <<status, current_book, reg>>
     /\ UNCHANGED <<members, member_pk, creating>>
     /\ UNCHANGED <<books, pages, digital_book, req>>

NextApi ==
  \/ \E m \in Members, page_num \in PageNums, a \in ConcAmounts,
        d \in ConcDates : Record(m, page_num, a[1], a[2], d)
  \/ \E m \in Members, page_num \in PageNums, d \in ConcDates,
        x \in DepositSplits : CreateMultipleDeposits(m, page_num, d, x[1], x[2])
  \/ \E entries_data \in EntryDataLists : CreateMultipleEntries(entries_data)

SpecApi == Init /\ [][NextApi]_vars

\* ---------------------------------------- members and their books
\* primary keys of the next Member and DigitalBook rows
NextMemberId == Len(status) + 1
NextBookId == Cardinality(books) + 1

\* the statuses a Member row is created with outside the view
NewStatuses == {"PENDING", "ACTIVE"}

\* Member.save, super().save() of a new member: the row is inserted; the
\* book follows if is_new and status == 'ACTIVE' and not current_book.
\* Registrations are served one at a time here and members are in group
\* 1, so the member_id read earlier in the request is the one read now.
InsertMember(s, book_read) ==
  /\ members' = members \cup
       {[pk |-> member_pk, group |-> 1,
         member_id |-> generate_next_member_id(members, 1)]}
  /\ member_pk' = member_pk + 1
  /\ UNCHANGED creating
  /\ status' = Append(status, s)
  /\ current_book' = Append(current_book, 0)
  /\ digital_book' = Append(digital_book, book_read)
  /\ reg' = IF s = "ACTIVE"
              THEN [reg EXCEPT !.pc = "m_book", !.member = NextMemberId,
                               !.status = s, !.digital_book = book_read]
              ELSE IdleReg

\* MemberCreateView.form_valid: new_book = DigitalBook.objects.create(book_number=1)
ViewCreateBook ==
  /\ reg.pc = "idle"
  /\ Len(status) < MaxRegs
  /\ books' = books \cup {[id |-> NextBookId, member |-> 0, book_number |-> 1]}
  /\ reg' = [IdleReg EXCEPT !.pc = "v_pages", !.new_book = NextBookId]
  /\ UNCHANGED <<status, current_book, pages, digital_book>>
  /\ UNCHANGED <<entries, next_id, ops, last, req>>
  /\ UNCHANGED <<members, member_pk, creating>>

\* MemberCreateView.form_valid: Page.objects.bulk_create(pages)
ViewCreatePages ==
  /\ reg.pc = "v_pages"
  /\ pages' = pages \cup PagesOfBook(reg.new_book)
  /\ reg' = [reg EXCEPT !.pc = "v_save", !.digital_book = reg.new_book,
                        !.status = "ACTIVE"]
  /\ UNCHANGED <<status, current_book, books, digital_book>>
  /\ UNCHANGED <<entries, next_id, ops, last, req>>
  /\ UNCHANGED <<members, member_pk, creating>>

\* MemberCreateView.form_valid: member.digital_book = new_book,
\* member.status = 'ACTIVE', member.save() up to the INSERT of the member
ViewSaveMember ==
  /\ reg.pc = "v_save"
  /\ InsertMember(reg.status, reg.digital_book)
  /\ UNCHANGED <<books, pages>>
  /\ UNCHANGED <<entries, next_id, ops, last, req>>

\* a Member created with status s and saved, outside the view: Member.save
\* up to the INSERT of the member
MemberSaveNew(s) ==
  /\ reg.pc = "idle"
  /\ Len(status) < MaxRegs
  /\ InsertMember(s, 0)
  /\ UNCHANGED <<books, pages>>
  /\ UNCHANGED <<entries, next_id, ops, last, req>>

\* Member.save: new_book = DigitalBook.objects.create(member=self, book_number=1)
MemberSaveBook ==
  /\ reg.pc = "m_book"
  /\ books' = books \cup {[id |-> NextBookId, member |-> reg.member,
                            book_number |-> 1]}
  /\ reg' = [reg EXCEPT !.pc = "m_pages", !.new_book = NextBookId]
  /\ UNCHANGED <<status, current_book, pages, digital_book>>
  /\ UNCHANGED <<entries, next_id, ops, last, req>>
  /\ UNCHANGED <<members, member_pk, creating>>

\* Member.save: Page.objects.bulk_create(pages)
MemberSavePages ==
  /\ reg.pc = "m_pages"
  /\ pages' = pages \cup PagesOfBook(reg.new_book)
  /\ reg' = [reg EXCEPT !.pc = "m_link"]
  /\ UNCHANGED <<status, current_book, books, digital_book>>
  /\ UNCHANGED <<entries, next_id, ops, last, req>>
  /\ UNCHANGED <<members, member_pk, creating>>

\* Member.save: self.current_book = new_book, saved with update_fields
MemberSaveLink ==
  /\ reg.pc = "m_link"
  /\ current_book' = [current_book EXCEPT ![reg.member] = reg.new_book]
  /\ reg' = IdleReg
  /\ UNCHANGED <<status, books, pages, digital_book>>
  /\ UNCHANGED <<entries, next_id, ops, last, req>>
  /\ UNCHANGED <<members, member_pk, creating>>

\* an existing PENDING member is set ACTIVE and saved: Member.save with
\* is_new false makes no book
MemberActivate(m) ==
  /\ reg.pc = "idle"
  /\ m \in DOMAIN status
  /\ status[m] = "PENDING"
  /\ status' = [status EXCEPT ![m] = "ACTIVE"]
  /\ UNCHANGED <<current_book, reg, books, pages, digital_book>>
  /\ UNCHANGED <<entries, next_id, ops, last, req>>
  /\ UNCHANGED <<members, member_pk, creating>>

\* the missing page taken for a page that was filled
Http404Ignored(rq) == Finished(rq, "filled")

\* the response to a lookup that raised Http404
Http404(rq) == Finished(rq, "not_found")

\* RecordEntryView.form_valid when get_object_or_404(Page, ...) finds no
\* page of the book the view reads with the number asked for
RecordNotFound(m, page_num, total_deposit, withdrawal, entry_date) ==
  /\ ops < MaxOps
  /\ m \in DOMAIN status
  /\ [book |-> digital_book[m], page_number |-> page_num] \notin pages
  /\ last' = Http404(NewRequest(m, page_num, total_deposit, withdrawal,
                                entry_date))
  /\ ops' = ops + 1
  /\ UNCHANGED <<status, current_book, reg>>
  /\ UNCHANGED <<members, member_pk, creating>>
  /\ UNCHANGED <<books, pages, digital_book, entries, next_id, req>>

\* RecordEntryView.form_valid for a member that exists, on page 1 of the
\* book the view reads
RecordOnBook(m, total_deposit, withdrawal, entry_date) ==
  /\ m \in DOMAIN status
  /\ Record(m, 1, total_deposit, withdrawal, entry_date)

\* nobody is registered yet
InitReg ==
  /\ status = <<>>
  /\ current_book = <<>>
  /\ reg = IdleReg
  /\ books = {}
  /\ pages = {}
  /\ digital_book = <<>>
  /\ entries = {}
  /\ next_id = 1
  /\ ops = 0
  /\ last = IdleReq
  /\ req = [r \in Reqs |-> IdleReq]
  /\ members = {}
  /\ member_pk = 1
  /\ creating = [r \in Reqs |-> IdleCreating]

NextReg ==
  \/ ViewCreateBook
  \/ ViewCreatePages
  \/ ViewSaveMember
  \/ \E s \in NewStatuses : MemberSaveNew(s)
  \/ MemberSaveBook
  \/ MemberSavePages
  \/ MemberSaveLink
  \/ \E m \in 1..MaxRegs : MemberActivate(m)
  \/ \E m \in 1..MaxRegs, a \in ConcAmounts, d \in ConcDates :
        RecordOnBook(m, a[1], a[2], d)
  \/ \E m \in 1..MaxRegs, a \in ConcAmounts, d \in ConcDates :
        RecordNotFound(m, 1, a[1], a[2], d)

SpecReg == InitReg /\ [][NextReg]_vars

\* ------------------------------------- member ids under concurrent requests
\* Only the pk, group and member_id columns of the Member table are
\* followed here; the books of a new member are the subject of SpecReg.

\* MemberCreateView.form_valid: new_member_id = self.get_next_member_id(
\* selected_group), read before the user, the book and the member are made
ViewGetNextMemberId(r, group) ==
  /\ ops < MaxOps
  /\ creating[r].pc = "idle"
  /\ creating' = [creating EXCEPT ![r] =
                    [pc |-> "form_valid", group |-> group,
                     member_id |-> get_next_member_id(members, group)]]
  /\ ops' = ops + 1
  /\ UNCHANGED <<members, member_pk>>
  /\ UNCHANGED <<status, current_book, reg, books, pages, digital_book>>
  /\ UNCHANGED <<entries, next_id, last, req>>

\* Member.save of a new member without member_id:
\* self.member_id = generate_next_member_id(self.group)
MemberSaveGenerateId(r, group) ==
  /\ ops < MaxOps
  /\ creating[r].pc = "idle"
  /\ creating' = [creating EXCEPT ![r] =
                    [pc |-> "save", group |-> group,
                     member_id |-> generate_next_member_id(members, group)]]
  /\ ops' = ops + 1
  /\ UNCHANGED <<members, member_pk>>
  /\ UNCHANGED <<status, current_book, reg, books, pages, digital_book>>
  /\ UNCHANGED <<entries, next_id, last, req>>

\* Member.save: super().save() inserts the row with the member_id the
\* view gave it or save generated; the column has no unique constraint
MemberSaveInsert(r) ==
  /\ creating[r].pc \in {"form_valid", "save"}
  /\ members' = members \cup
       {[pk |-> member_pk, group |-> creating[r].group,
         member_id |-> creating[r].member_id]}
  /\ member_pk' = member_pk + 1
  /\ creating' = [creating EXCEPT ![r] = IdleCreating]
  /\ UNCHANGED <<status, current_book, reg, books, pages, digital_book>>
  /\ UNCHANGED <<entries, next_id, ops, last, req>>

\* a member is deleted: the row goes when its user or its group is
\* deleted (on_delete=models.CASCADE)
DeleteMember(pk) ==
  /\ \E m \in members : m.pk = pk
  /\ members' = {m \in members : m.pk # pk}
  /\ UNCHANGED <<member_pk, creating>>
  /\ UNCHANGED <<status, current_book, reg, books, pages, digital_book>>
  /\ UNCHANGED <<entries, next_id, ops, last, req>>

NextIds ==
  \/ \E r \in Reqs, group \in Groups : ViewGetNextMemberId(r, group)
  \/ \E r \in Reqs, group \in Groups : MemberSaveGenerateId(r, group)
  \/ \E r \in Reqs : MemberSaveInsert(r)
  \/ \E pk \in 1..MaxOps : DeleteMember(pk)

SpecIds == InitReg /\ [][NextIds]_vars

\* --------------------------------------------------- the book views
\* existing_entries.filter(row_number=i).first(); NoEntry is None
EntryOnRow(es, pg, i) ==
  LET found == {e \in PageEntries(es, pg) : e.row_number = i}
  IN IF found = {} THEN NoEntry ELSE CHOOSE e \in found : TRUE

\* MemberBookView / CustomerBookView: the 31-row structure of a page,
\* rows.append({'number': i, 'data': entry}) for i in range(1, 32)
BookViewRows(es, pg) ==
  [i \in 1..RowsPerPage |-> [number |-> i, data |-> EntryOnRow(es, pg, i)]]

\* DigitalBook.book_balance: current_balance of the book's entry first by
\* (-page__page_number, -row_number), 0 for a book without entries
book_balance(es, b) ==
  LET mine == {e \in es : e.page.book = b}
  IN IF mine = {} THEN 0
     ELSE LET p == Max({e.page.page_number : e \in mine})
              row == Max({e.row_number :
                            e \in {o \in mine : o.page.page_number = p}})
          IN (CHOOSE e \in mine :
                e.page.page_number = p /\ e.row_number = row).current_balance

RECURSIVE SumOf(_, _)
\* aggregate(total=Sum(field))['total'] or 0 over the entries S
SumOf(S, field) ==
  IF S = {} THEN 0
  ELSE LET e == CHOOSE x \in S : TRUE
       IN e[field] + SumOf(S \ {e}, field)

\* CustomerBookView: member_balance = total_deposits - total_withdrawals
member_balance(es, m) ==
  LET mine == {e \in es : e.member = m}
  IN SumOf(mine, "deposit_amount") - SumOf(mine, "withdrawal_amount")

\* ------------------------------------------------- vocabulary of the claims
\* entries of book b
BookEntries(es, b) == {e \in es : e.page.book = b}

\* a comes after b in (page_number, row_number) order
AfterInBook(a, b) ==
  \/ a.page.page_number > b.page.page_number
  \/ a.page.page_number = b.page.page_number /\ a.row_number >= b.row_number

\* the entries of S that no entry of S follows in (page_number, row_number)
LastInBook(S) == {e \in S : \A o \in S : AfterInBook(e, o)}

RECURSIVE NetOf(_)
\* sum of deposit_amount minus sum of withdrawal_amount over S
NetOf(S) ==
  IF S = {} THEN 0
  ELSE LET e == CHOOSE x \in S : TRUE
       IN e.deposit_amount - e.withdrawal_amount + NetOf(S \ {e})

RECURSIVE DepositsOf(_)
\* sum of deposit_amount over S
DepositsOf(S) ==
  IF S = {} THEN 0
  ELSE LET e == CHOOSE x \in S : TRUE
       IN e.deposit_amount + DepositsOf(S \ {e})

\* rows a request needs: one for a withdrawal, the full rows and the
\* remainder row for a deposit
RequiredRows(rq) ==
  IF rq.withdrawal > 0 THEN 1
  ELSE IF rq.total_deposit > 0
    THEN NumRows(rq.total_deposit, FixedRate)
         + (IF Remainder(rq.total_deposit, FixedRate) > 0 THEN 1 ELSE 0)
  ELSE 0

\* the step is one record request served whole
RecordServed == ops' = ops + 1 /\ last'.pc = "done"

\* the entries the step wrote
Written == entries' \ entries

PageFull(es, pg) == OccupiedRows(es, pg) = 1..RowsPerPage

\* ------------------------------------------------------------------ claims

\* C1: after any sequence of deposits and withdrawals of one member in one
\* book, the current_balance of the book's last entry (by page_number, then
\* row_number) is the sum of the deposits minus the sum of the withdrawals
\* recorded in the book.
C1_LastBalanceIsNet ==
  \A b \in books :
    \A e \in LastInBook(BookEntries(entries, b.id)) :
      e.current_balance = NetOf(BookEntries(entries, b.id))

\* C2: under any interleaving of concurrent record requests no two entries
\* share (page, row_number): two requests are never given the same slot and
\* both persisted.
C2_UniqueSlot ==
  \A e1 \in entries : \A e2 \in entries :
    (e1.page = e2.page /\ e1.row_number = e2.row_number) => e1 = e2

\* C2 witness: two requests settled on the same slot and the second write
\* was refused.
C2_Witness ==
  \E r \in Reqs : req[r].pc = "done" /\ req[r].outcome = "integrity_error"

C4_NoNegativeBalance == \A e \in entries : e.current_balance >= 0

\* C5: every record call is all-or-nothing: when it ends either every row
\* the request requires is persisted or none of them is.
C5_AllOrNothing ==
  [][RecordServed =>
       \/ Cardinality(Written) = 0
       \/ Cardinality(Written) = RequiredRows(last')]_vars

\* C6: two concurrent withdrawals of one member are never both accepted
\* after being validated against the same balance snapshot with a sum above
\* that balance.
C6_NoOverWithdrawal ==
  \A r1 \in Reqs : \A r2 \in Reqs \ {r1} :
    (/\ req[r1].outcome = "withdrawn" /\ req[r2].outcome = "withdrawn"
     /\ req[r1].member = req[r2].member
     /\ req[r1].last_entry_id = req[r2].last_entry_id)
      => req[r1].withdrawal + req[r2].withdrawal <= req[r1].current_bal

\* the entry of S written just before e, by primary key
WrittenBefore(S, e) == {o \in S : o.id = e.id - 1}

\* C7: a deposit of amount > 0 at fixed rate f writes exactly floor(amount/f)
\* entries of f, then one entry of the remainder iff the remainder is > 0;
\* the deposits written sum to amount and each entry's balance is the
\* balance of the entry written before it plus its own deposit.
C7_DepositSplit ==
  [][(RecordServed /\ last'.total_deposit > 0 /\ last'.withdrawal = 0) =>
       LET full == NumRows(last'.total_deposit, FixedRate)
           rem == Remainder(last'.total_deposit, FixedRate)
       IN /\ Cardinality({e \in Written : e.deposit_amount = FixedRate}) = full
          /\ Cardinality({e \in Written : e.deposit_amount # FixedRate})
               = (IF rem > 0 THEN 1 ELSE 0)
          /\ \A e \in Written :
               e.deposit_amount # FixedRate =>
                 e.deposit_amount = rem /\ e.id = next_id' - 1
          /\ DepositsOf(Written) = last'.total_deposit
          /\ \A e \in Written : \A o \in WrittenBefore(Written, e) :
               e.current_balance = o.current_balance + e.deposit_amount]_vars

\* the pages of book b after page_number n that have a free row
LaterFreePages(es, b, n) ==
  {pg \in pages : pg.book = b /\ pg.page_number > n /\ ~PageFull(es, pg)}

\* the first of a set of pages of one book
FirstPage(S) == CHOOSE pg \in S : \A o \in S : pg.page_number <= o.page_number

FreeRowsInBook(es, b) ==
  PagesPerBook * RowsPerPage - Cardinality(BookEntries(es, b))

\* highest book_number of member m
MaxBookNumber(bs, m) == Max({b.book_number : b \in {x \in bs : x.member = m}})

EarlierPagesEntries(es, b, n) ==
  {e \in es : e.page.book = b /\ e.page.page_number < n}

\* C10: the first entry written on a page p > 1 of a book that already has
\* entries on earlier pages carries the balance of the last entry of the
\* earlier pages plus its deposit minus its withdrawal.
C10_BalanceCarriesAcrossPages ==
  [][RecordServed =>
       \A e \in Written :
         (/\ e.page.page_number > 1
          /\ PageEntries(entries, e.page) = {}
          /\ \A o \in Written : o.row_number >= e.row_number
          /\ EarlierPagesEntries(entries, e.page.book, e.page.page_number) # {})
           => \A o \in LastInBook(EarlierPagesEntries(entries, e.page.book,
                                                      e.page.page_number)) :
                e.current_balance = o.current_balance + e.deposit_amount
                                      - e.withdrawal_amount]_vars

\* C11: a record request with no positive deposit and no positive
\* withdrawal is answered with the invalid-amount error and writes nothing:
\* no entry, page or book is created and no stored record changes.
C11_NoAmountWritesNothing ==
  [][(RecordServed /\ last'.total_deposit <= 0 /\ last'.withdrawal <= 0)
       => (/\ last'.outcome = "no_amount"
           /\ entries' = entries
           /\ next_id' = next_id
           /\ books' = books
           /\ pages' = pages
           /\ digital_book' = digital_book)]_vars

\* C11 witness: a negative deposit was turned down on a ledger that already
\* holds entries.
C11_Witness ==
  /\ last.outcome = "no_amount"
  /\ last.total_deposit < 0
  /\ entries # {}

\* C12: a record request carrying both a positive deposit and a positive
\* withdrawal is rejected and writes no entry; it is never processed as a
\* withdrawal alone or as a deposit alone.
C12_BothAmountsRejected ==
  [][(RecordServed /\ last'.total_deposit > 0 /\ last'.withdrawal > 0)
       => (/\ entries' = entries
           /\ last'.outcome \notin {"withdrawn", "filled", "couldnt_fit"})]_vars

\* rows of page pg without an entry
FreeOnPage(es, pg) == RowsPerPage - Cardinality(OccupiedRows(es, pg))

\* a deposit, or a withdrawal the balance es shows for the member covers
ValidRequest(rq, es) ==
  \/ rq.withdrawal > 0 /\ rq.withdrawal <= CurrentBal(es, rq.member)
  \/ rq.withdrawal <= 0 /\ rq.total_deposit > 0

C14_WithdrawalEntry ==
  [][(RecordServed /\ last'.outcome = "withdrawn")
       => \E e \in Written :
            /\ Written = {e}
            /\ e.withdrawal_amount = last'.withdrawal
            /\ e.deposit_amount = 0
            /\ e.current_balance = last'.current_bal - last'.withdrawal]_vars

\* the step is worker r computing the next free slot of its page
SlotDiscovery(r) == req[r].pc = "w_find" /\ req'[r].pc # "w_find"

\* C15: slot discovery is read-only and idempotent: it changes no stored
\* record, and computing the next free slot again, with no write in
\* between, returns the same (page, row_number).
C15_SlotDiscoveryIdempotent ==
  [][\A r \in Reqs :
       SlotDiscovery(r) =>
         LET again == NextRow(OccupiedRows(entries', req'[r].page))
         IN /\ entries' = entries
            /\ next_id' = next_id
            /\ books' = books /\ pages' = pages
            /\ digital_book' = digital_book
            /\ req'[r].page = req[r].page
            /\ IF again = 0 THEN req'[r].outcome = "page_full"
               ELSE req'[r].pc = "w_create" /\ req'[r].next_row = again]_vars

\* C15 witness: two requests computed the next free slot of one page that
\* holds entries, with no write in between, and both got the same slot.
C15_Witness ==
  \E r1 \in Reqs : \E r2 \in Reqs \ {r1} :
    /\ req[r1].pc = "w_create" /\ req[r2].pc = "w_create"
    /\ req[r1].page = req[r2].page
    /\ req[r1].next_row = req[r2].next_row
    /\ req[r1].next_row > 1
    /\ req[r1].next_row = NextRow(OccupiedRows(entries, req[r1].page))

\* the entries of es that belong to member m
EntriesOf(es, m) == {e \in es : e.member = m}

\* the step is worker r running a step of its request
HandlerStepOf(r) == req'[r] # req[r] /\ req[r].pc \notin {"idle", "done"}

\* C16: a record call for one member leaves every other member's books,
\* pages, entries, balances and book pointer unchanged under any
\* interleaving, and the balance stored in an entry is computed from the
\* entries of its own member only.
C16_OtherMembersUntouched ==
  [][\A r \in Reqs :
       HandlerStepOf(r) =>
         LET m == req[r].member
         IN /\ \A o \in GroupMembers \ {m} :
                 /\ EntriesOf(entries', o) = EntriesOf(entries, o)
                 /\ CurrentBal(entries', o) = CurrentBal(entries, o)
                 /\ StartingBalance(entries', o) = StartingBalance(entries, o)
            /\ books' = books /\ pages' = pages
            /\ digital_book' = digital_book
            /\ \A e \in Written :
                 /\ e.member = m
                 /\ e.page.book = digital_book[m]
                 /\ e.current_balance =
                      StartingBalance(EntriesOf(entries, m), m)
                        + e.deposit_amount - e.withdrawal_amount]_vars

\* C16 witness: requests of two members are in flight together, each
\* having written a row, and one of them writes next to the other member's
\* entries.
C16_Witness ==
  \E r1 \in Reqs : \E r2 \in Reqs \ {r1} :
    /\ req[r1].member # req[r2].member
    /\ req[r1].pc = "d_fill" /\ req[r2].pc = "d_fill"
    /\ req[r1].rows_filled > 0 /\ req[r2].rows_filled > 0
    /\ EntriesOf(entries, req[r1].member) # {}
    /\ EntriesOf(entries, req[r2].member) # {}

\* C17: a record call that failed with a storage failure has left nothing
\* behind, so that the failed call followed by one successful retry leaves
\* the ledger a single successful call leaves: no row of the request is
\* recorded twice.
C17_FailedCallLeavesNothing ==
  \A r \in Reqs :
    (req[r].pc = "done" /\ req[r].outcome = "integrity_error")
      => req[r].rows_filled = 0

\* C18: the rows one deposit request uses, full-rate rows and remainder
\* row, are pairwise distinct and each was free before the request; the
\* remainder is never put on, nor tried on, a row a full-rate row of the
\* same request has taken.
C18_DistinctFreshRows ==
  [][(RecordServed /\ last'.total_deposit > 0 /\ last'.withdrawal <= 0)
       => (/\ \A e \in Written :
                /\ e.page = last'.page
                /\ e.row_number \notin OccupiedRows(entries, last'.page)
           /\ \A e1 \in Written : \A e2 \in Written :
                e1.row_number = e2.row_number => e1 = e2
           /\ \A e \in Written :
                e.id = next_id' - 1 /\ e.deposit_amount = last'.remainder
                  => \A o \in Written \ {e} : o.row_number < e.row_number
           /\ last'.outcome # "integrity_error")]_vars

\* C18 witness: a deposit with full-rate rows and a remainder was written
\* whole on a page that already held entries.
C18_Witness ==
  /\ last.outcome = "filled"
  /\ last.num_rows > 1 /\ last.remainder > 0
  /\ last.rows_filled = last.num_rows + 1
  /\ last.occupied_rows # {}

\* C19: in every reachable state, whichever of record,
\* create_multiple_deposits and create_multiple_entries wrote the entries,
\* every entry has row_number in 1..31, every page has page_number in 1..20
\* and at most 31 entries, and every book holds at most 620 entries.
C19_CapacityBounds ==
  /\ \A e \in entries : e.row_number \in 1..RowsPerPage
  /\ \A pg \in pages :
       /\ pg.page_number \in 1..PagesPerBook
       /\ Cardinality(PageEntries(entries, pg)) <= RowsPerPage
  /\ \A b \in books :
       Cardinality(BookEntries(entries, b.id)) <= PagesPerBook * RowsPerPage

\* C20: in every reachable state every entry has deposit_amount >= 0 and
\* withdrawal_amount >= 0 and not both positive, whichever creation path
\* produced it.
C20_AmountsWellFormed ==
  \A e \in entries :
    /\ e.deposit_amount >= 0
    /\ e.withdrawal_amount >= 0
    /\ ~(e.deposit_amount > 0 /\ e.withdrawal_amount > 0)

\* the books of bs owned by member m
OwnedBooks(bs, m) == {b \in bs : b.member = m}

PageNumbersOf(ps, b) == {pg.page_number : pg \in {x \in ps : x.book = b}}

\* C22: every book that exists in a reachable state has exactly the pages
\* numbered 1..20; no state is observable in which a book exists with fewer
\* pages.
C22_BooksHaveAllPages ==
  \A b \in books : PageNumbersOf(pages, b.id) = 1..PagesPerBook

\* C23: once the save that made a member ACTIVE has completed, whether the
\* member was created ACTIVE or went from PENDING to ACTIVE later, the
\* member has a book number 1 with its pages and a non-null current_book.
C23_ActiveHasBook ==
  reg.pc = "idle" =>
    \A m \in DOMAIN status :
      status[m] = "ACTIVE" =>
        /\ current_book[m] # 0
        /\ \E b \in OwnedBooks(books, m) :
             /\ b.id = current_book[m]
             /\ b.book_number = 1
             /\ PageNumbersOf(pages, b.id) = 1..PagesPerBook

\* the books of member m with the highest book_number
MostRecentBooks(bs, m) ==
  {b \in OwnedBooks(bs, m) :
     \A o \in OwnedBooks(bs, m) : o.book_number <= b.book_number}

C25_ViewShowsEveryEntry ==
  \A pg \in pages :
    LET rows == BookViewRows(entries, pg)
    IN /\ DOMAIN rows = 1..RowsPerPage
       /\ \A i \in DOMAIN rows :
            /\ rows[i].number = i
            /\ \A e \in PageEntries(entries, pg) :
                 e.row_number = i => rows[i].data = e
            /\ (\A e \in PageEntries(entries, pg) : e.row_number # i)
                 => rows[i].data = NoEntry
       /\ \A e \in PageEntries(entries, pg) :
            Cardinality({i \in DOMAIN rows : rows[i].data = e}) = 1

\* C26: for every deposit request the deposit_amounts of the entries
\* written plus the amount reported to the caller as not recorded equal the
\* requested amount; the reported part includes the remainder as well as
\* the full-rate rows that were not written.
C26_WrittenPlusOverflow ==
  [][(RecordServed /\ last'.total_deposit > 0 /\ last'.withdrawal <= 0
        /\ last'.outcome # "not_found")
       => DepositsOf(Written) + OverflowReported(last')
            = last'.total_deposit]_vars

\* C27: Entry.create_multiple_deposits with num_rows >= 1 writes exactly
\* num_rows entries for the member on the given page, at the consecutive
\* row_numbers start..start+num_rows-1, where start is 1 on an empty page
\* and the page's highest row_number + 1 otherwise, each with the
\* deposit_amount total_amount/num_rows and no withdrawal; with
\* num_rows <= 0 it writes nothing.  (Called one at a time no row fails,
\* since every row is beyond the page's highest.)
C27_ConsecutiveEqualRows ==
  [][\A m \in Members, page_num \in PageNums, d \in ConcDates,
        x \in DepositSplits :
       (last' = IdleReq /\ CreateMultipleDeposits(m, page_num, d, x[1], x[2])) =>
         LET pg == [book |-> digital_book[m], page_number |-> page_num]
             rows == {e.row_number : e \in {o \in entries : o.page = pg}}
             start == IF rows = {} THEN 1 ELSE Max(rows) + 1
         IN IF x[2] <= 0 THEN Written = {}
            ELSE /\ Cardinality(Written) = x[2]
                 /\ {e.row_number : e \in Written} = start..(start + x[2] - 1)
                 /\ \A e \in Written :
                      /\ e.page = pg
                      /\ e.member = m
                      /\ e.date = d
                      /\ e.deposit_amount * x[2] = x[1]
                      /\ e.withdrawal_amount = 0]_vars

\* two equal rows were appended after the three rows of a page
C27_Witness ==
  /\ ops = 2
  /\ last = IdleReq
  /\ \E pg \in pages :
       /\ OccupiedRows(entries, pg) = 1..5
       /\ \A e \in PageEntries(entries, pg) :
            e.row_number \in {4, 5} => e.deposit_amount = 10 /\ e.id \in {4, 5}
       /\ \A e \in PageEntries(entries, pg) : e.row_number = 3 => e.deposit_amount = 5

\* the entries of S of member m created before e
CreatedBefore(S, m, e) == {o \in S : o.member = m /\ o.id < e.id}

\* C28: in every call of Entry.create_multiple_entries, for each member of
\* the batch, each created entry's current_balance is the current_balance
\* of the entry created just before it for that member in the call (for
\* the first: of the member's latest entry before the call, 0 if none)
\* plus its deposit_amount minus its withdrawal_amount, whatever the
\* member's ledger held before.
C28_BatchBalancesChain ==
  [][\A entries_data \in EntryDataLists :
       (last' = IdleReq /\ CreateMultipleEntries(entries_data)) =>
         \A e \in Written :
           LET before == CreatedBefore(Written, e.member, e)
               prev == IF before = {} THEN LastEntryById(entries, e.member)
                       ELSE CHOOSE o \in before : \A q \in before : q.id <= o.id
               start == IF prev = NoEntry THEN 0 ELSE prev.current_balance
           IN e.current_balance
                = start + e.deposit_amount - e.withdrawal_amount]_vars

\* a member's current_book, when non-null, is a book the member owns and
\* the one with the member's highest book_number
CurrentBookIsMostRecent ==
  \A m \in DOMAIN status :
    current_book[m] # 0 =>
      \E b \in MostRecentBooks(books, m) : b.id = current_book[m]

C30_BalancesAgree ==
  \A m \in Members :
    /\ CurrentBal(entries, m) = StartingBalance(entries, m)
    /\ CurrentBal(entries, m) = book_balance(entries, digital_book[m])
    /\ CurrentBal(entries, m) = member_balance(entries, m)

\* C31: the ledger is append-only under record: every entry that exists
\* before a record call exists unchanged after it (same id, member, page,
\* row_number, date, deposit_amount, withdrawal_amount and
\* current_balance), whether the call succeeds or fails; a stored
\* current_balance is never recomputed.
C31_AppendOnly ==
  [][RecordServed =>
       \A e \in entries :
         /\ e \in entries'
         /\ \A o \in entries' : o.id = e.id => o = e]_vars

\* C31 witness: a withdrawal was recorded in a ledger that held a deposit,
\* and the deposit's entry is still there.
C31_Witness ==
  /\ last.outcome = "withdrawn"
  /\ \E e1 \in entries, e2 \in entries :
       /\ e1.id = 1 /\ e1.deposit_amount > 0
       /\ e2.id = next_id - 1 /\ e2.id > e1.id
       /\ e2.withdrawal_amount = last.withdrawal

\* C32: member ids are unique within a group: after any sequence of
\* creations and deletions of members, and under any interleaving of two
\* concurrent creations, no two existing members of the same group have
\* the same member_id.
C32_MemberIdsUnique ==
  \A a \in members : \A b \in members :
    (a.group = b.group /\ a.member_id = b.member_id) => a = b

\* the state Init describes: the members registered through the view
RegisteredThroughView ==
  /\ reg = IdleReg
  /\ status = [m \in Members |-> "ACTIVE"]
  /\ books = RegisteredBooks
  /\ pages = UNION {PagesOfBook(b.id) : b \in RegisteredBooks}
  /\ digital_book = [m \in Members |-> 2 * m - 1]
  /\ current_book = [m \in Members |-> 2 * m]
  /\ members = MembersRegistered(Members)
  /\ member_pk = Cardinality(Members) + 1

TypeOK ==
  /\ next_id \in Nat
  /\ \A e \in entries : e.id < next_id /\ e.row_number \in 1..RowsPerPage

====
